---- MODULE Spec2Model ----
(***************************************************************************)
(* Model of the offline-caching service worker (src/sw.js): the install,   *)
(* activate and fetch listeners, the origin's CacheStorage they share, and *)
(* the host's worker lifecycle that drives them.                           *)
(***************************************************************************)
EXTENDS Integers, Sequences, FiniteSets, TLC

\* ---------------------------------------------------------------- bounds
NumInst == 2        \* worker instances the host creates (updates, retries)
MaxBody == 2        \* distinct response bodies the network can serve
NumClients == 1     \* client pages in scope

\* ------------------------------------------------------------- constants
CACHE_NAME == "topview-shell-v1"
STALE_NAME == "topview-shell-v0"    \* a namespace left by a prior version
ASSETS == << "/", "/index.html", "/manifest.json" >>

AssetSet == { ASSETS[k] : k \in 1..Len(ASSETS) }
OtherURL == "/api/data"             \* a request identity outside the shell
URLs == AssetSet \cup {OtherURL}
Methods == {"GET", "POST"}
Inst == 1..NumInst
Clients == 1..NumClients
Bodies == 1..MaxBody
CacheNames == {CACHE_NAME, STALE_NAME}

\* ------------------------------------------------------------- dashboard
MaxAdds == 2        \* records added to the dashboard's lists in one run

Roles == {"Admin", "Accountant", "Engineer", "Worker"}
User(i, r) == [id |-> i, role |-> r]
NoUser == [id |-> 0, role |-> "none"]       \* currentUser null
sampleUsers == << User(1, "Admin"), User(2, "Accountant"),
                  User(3, "Engineer"), User(4, "Worker") >>
sampleProjects == << 101, 102 >>
sampleTransactions == << 5001, 5002 >>
Tabs == {"dashboard", "employees", "projects", "finance", "inventory"}
\* values Date.now() gives to new records: the same instant or a later one
Timestamps == {7001, 7002}

\* ------------------------------------------------------------- responses
\* A Response is a record; a network error is the response of type "error"
\* (status 0); Undefined is what caches.match resolves with on a miss.
NetworkError == [type |-> "error", status |-> 0, body |-> 0]
Undefined == [type |-> "undefined", status |-> 0, body |-> 0]
Response(s, b) == [type |-> "basic", status |-> s, body |-> b]
NotFound == Response(404, 1)        \* a response whose status is not ok
NetResponses == { Response(200, b) : b \in Bodies } \cup {NotFound}
\* outcome of one network attempt: a response of any status, or a rejection
NetResults == NetResponses \cup {NetworkError}
IsResponse(r) == r.type = "basic"
\* Response.ok: status in the range 200-299
Ok(r) == IsResponse(r) /\ r.status >= 200 /\ r.status <= 299

EmptyCache == [u \in URLs |-> Undefined]
Keys(cache) == { u \in URLs : cache[u] # Undefined }

NoRequest == [pc |-> "idle", client |-> 0, inst |-> 0, method |-> "GET",
              url |-> "/", responded |-> FALSE, net |-> Undefined,
              attempts |-> 0, lookups |-> 0, delivered |-> Undefined]

VARIABLES
    cacheNames,     \* CacheStorage: names of existing caches, creation order
    cacheStore,     \* CacheStorage: name -> (request identity -> response)
    state,          \* instance -> ServiceWorker.state
    skipWaitingFlag,\* instance -> skip waiting flag
    installPc,      \* instance -> position of the install promise chain
    fetchFailed,    \* instance -> some install fetch gave no ok response
    activatePc,     \* instance -> position of the activate promise chain
    controller,     \* client -> controlling instance (0: uncontrolled)
    req,            \* the intercepted request being handled (or the last one)
    \* the dashboard (ERPApp component state)
    currentUser,    \* the user acted as
    users,          \* employees, newest first
    projects,       \* ids of the projects, newest first
    transactions,   \* ids of the transactions, newest first
    activeTab,      \* tab shown in the main area
    showLogin,      \* the Switch User modal is open
    showAddEmployee,    \* the Add Employee modal is open
    showAddProject,     \* the Add Project modal is open
    showAddTransaction  \* the Add Transaction modal is open

uiVars == << currentUser, users, projects, transactions, activeTab, showLogin,
             showAddEmployee, showAddProject, showAddTransaction >>

workerVars == << cacheNames, cacheStore, state, skipWaitingFlag, installPc,
                 fetchFailed, activatePc, controller, req >>

vars == << cacheNames, cacheStore, state, skipWaitingFlag, installPc,
           fetchFailed, activatePc, controller, req, uiVars >>

swVars == << state, skipWaitingFlag, installPc, fetchFailed, activatePc,
             controller >>

\* ------------------------------------------------------------------ Init
\* What a prior version may have left in its own namespace: responses with
\* a body (0) that the network no longer serves.
StaleContents ==
    { [u \in URLs |-> IF u \in S THEN Response(200, 0) ELSE Undefined] :
        S \in SUBSET {"/index.html", OtherURL} }

Init ==
    /\ \/ /\ cacheNames = << >>
          /\ cacheStore = [n \in CacheNames |-> EmptyCache]
       \/ \E c \in StaleContents :
          /\ cacheNames = << STALE_NAME >>
          /\ cacheStore = [n \in CacheNames |->
                             IF n = STALE_NAME THEN c ELSE EmptyCache]
    /\ state = [i \in Inst |-> "parsed"]
    /\ skipWaitingFlag = [i \in Inst |-> FALSE]
    /\ installPc = [i \in Inst |-> "idle"]
    /\ fetchFailed = [i \in Inst |-> FALSE]
    /\ activatePc = [i \in Inst |-> "idle"]
    /\ controller = [c \in Clients |-> 0]
    /\ req = NoRequest
    /\ currentUser = sampleUsers[1]
    /\ users = sampleUsers
    /\ projects = sampleProjects
    /\ transactions = sampleTransactions
    /\ activeTab = "dashboard"
    /\ showLogin = FALSE
    /\ showAddEmployee = FALSE
    /\ showAddProject = FALSE
    /\ showAddTransaction = FALSE

\* ------------------------------------------------------- install listener
\* The host creates worker instances one after the other (numbered in that
\* order) and fires install on each.  The handler body:
\* evt.waitUntil(<promise chain>) and self.skipWaiting().
InstallEvent(i) ==
    /\ state[i] = "parsed"
    /\ \A j \in Inst : j < i => state[j] # "parsed"
    /\ state' = [state EXCEPT ![i] = "installing"]
    /\ installPc' = [installPc EXCEPT ![i] = "open"]
    /\ skipWaitingFlag' = [skipWaitingFlag EXCEPT ![i] = TRUE]
    /\ UNCHANGED << cacheNames, cacheStore, fetchFailed, activatePc,
                    controller, req, uiVars >>

\* Mutant of OpenNames: the cache is created without looking for an existing
\* one of that name.
OpenNames_AlwaysCreates(names, name) == Append(names, name)

\* caches.open(name): opens the named cache, creating it when absent.
OpenNames(names, name) ==
    IF \E k \in 1..Len(names) : names[k] = name THEN names
    ELSE Append(names, name)

\* Mutant of CachesOpen: the cache is deleted and created anew on open.
CachesOpen_Recreate(i) ==
    /\ installPc[i] = "open"
    /\ cacheNames' = OpenNames(cacheNames, CACHE_NAME)
    /\ cacheStore' = [cacheStore EXCEPT ![CACHE_NAME] = EmptyCache]
    /\ installPc' = [installPc EXCEPT ![i] = "addAll"]
    /\ UNCHANGED << state, skipWaitingFlag, fetchFailed,
                    activatePc, controller, req, uiVars >>

CachesOpen(i) ==
    /\ installPc[i] = "open"
    /\ cacheNames' = OpenNames(cacheNames, CACHE_NAME)
    /\ installPc' = [installPc EXCEPT ![i] = "addAll"]
    /\ UNCHANGED << cacheStore, state, skipWaitingFlag, fetchFailed,
                    activatePc, controller, req, uiVars >>

\* cache.addAll resolves only when every request yielded an ok response.
AddAllOk(results) == \A u \in AssetSet : Ok(results[u])

\* Mutant of BatchPut: the last asset of the list is not stored.
BatchPut_DropsLast(cache, results) ==
    [u \in URLs |-> IF u \in AssetSet \ {ASSETS[Len(ASSETS)]}
                    THEN results[u] ELSE cache[u]]

\* cache.addAll's batch of put operations: one entry per listed request.
BatchPut(cache, results) ==
    [u \in URLs |-> IF u \in AssetSet THEN results[u] ELSE cache[u]]

\* What the network can answer to the requests of one addAll: every asset
\* served from one deployment of the site (all with the same body version),
\* or one asset with a failure (a rejection or a response that is not ok)
\* while the others are served.
AddAllFetches ==
    { [u \in AssetSet |-> Response(200, b)] : b \in Bodies }
    \cup { [u \in AssetSet |-> IF u = f THEN bad ELSE Response(200, 1)] :
             f \in AssetSet, bad \in {NotFound, NetworkError} }

\* Mutant of AddAll: every response is stored as it arrives, so a failed
\* population leaves the assets that were served.
AddAll_NotAtomic(i) ==
    /\ installPc[i] = "addAll"
    /\ \E results \in AddAllFetches :
         /\ fetchFailed' = [fetchFailed EXCEPT
                              ![i] = \E u \in AssetSet : ~Ok(results[u])]
         /\ cacheStore' = [cacheStore EXCEPT ![CACHE_NAME] =
                             [u \in URLs |->
                                IF u \in AssetSet /\ Ok(results[u])
                                THEN results[u] ELSE @[u]]]
         /\ installPc' = [installPc EXCEPT ![i] =
                            IF AddAllOk(results) THEN "resolved"
                            ELSE "rejected"]
    /\ UNCHANGED << cacheNames, state, skipWaitingFlag, activatePc,
                    controller, req, uiVars >>

AddAll(i) ==
    /\ installPc[i] = "addAll"
    /\ \E results \in AddAllFetches :
         /\ fetchFailed' = [fetchFailed EXCEPT
                              ![i] = \E u \in AssetSet : ~Ok(results[u])]
         /\ IF AddAllOk(results)
            THEN /\ cacheStore' = [cacheStore EXCEPT ![CACHE_NAME] =
                                     BatchPut(cacheStore[CACHE_NAME], results)]
                 /\ installPc' = [installPc EXCEPT ![i] = "resolved"]
            ELSE /\ cacheStore' = cacheStore
                 /\ installPc' = [installPc EXCEPT ![i] = "rejected"]
    /\ UNCHANGED << cacheNames, state, skipWaitingFlag, activatePc,
                    controller, req, uiVars >>

\* Mutant of InstallSettled: a rejected population still ends in "installed".
InstallSettled_IgnoresRejection(i) ==
    /\ state[i] = "installing"
    /\ installPc[i] \in {"resolved", "rejected"}
    /\ state' = [state EXCEPT ![i] = "installed"]
    /\ UNCHANGED << cacheNames, cacheStore, skipWaitingFlag, installPc,
                    fetchFailed, activatePc, controller, req, uiVars >>

\* The promise given to evt.waitUntil settles: the host ends the install.
InstallSettled(i) ==
    /\ state[i] = "installing"
    /\ installPc[i] \in {"resolved", "rejected"}
    /\ state' = [state EXCEPT ![i] =
                   IF installPc[i] = "resolved" THEN "installed"
                   ELSE "redundant"]
    /\ UNCHANGED << cacheNames, cacheStore, skipWaitingFlag, installPc,
                    fetchFailed, activatePc, controller, req, uiVars >>

\* ------------------------------------------------------ activate listener
\* The host activates an installed worker: at once when its skip waiting
\* flag is set, otherwise only when no client is held by an older worker.
\* The older active worker becomes redundant and its clients move over.
\* The handler body: evt.waitUntil(clients.claim()).
\* Mutant of CanActivate: skipWaiting is not called, the worker waits until
\* no client is held by an older worker.
CanActivate_WaitsForClients(i) ==
    \A c \in Clients : controller[c] \in {0, i}

CanActivate(i) ==
    \/ skipWaitingFlag[i]
    \/ \A c \in Clients : controller[c] \in {0, i}

\* Mutant of ActivateEvent: the worker is activated without a finished
\* install (the population is not awaited).
ActivateEvent_NoWait(i) ==
    /\ state[i] \in {"installing", "installed"}
    /\ CanActivate(i)
    /\ \A j \in Inst : state[j] # "activating"
    /\ state' = [j \in Inst |->
                   IF j = i THEN "activating"
                   ELSE IF state[j] = "activated" THEN "redundant"
                   ELSE state[j]]
    /\ controller' = [c \in Clients |->
                        IF controller[c] # 0 THEN i ELSE controller[c]]
    /\ activatePc' = [activatePc EXCEPT ![i] = "claim"]
    /\ UNCHANGED << cacheNames, cacheStore, skipWaitingFlag, installPc,
                    fetchFailed, req, uiVars >>

ActivateEvent(i) ==
    /\ state[i] = "installed"
    /\ CanActivate(i)
    /\ \A j \in Inst : state[j] # "activating"
    /\ state' = [j \in Inst |->
                   IF j = i THEN "activating"
                   ELSE IF state[j] = "activated" THEN "redundant"
                   ELSE state[j]]
    /\ controller' = [c \in Clients |->
                        IF controller[c] # 0 THEN i ELSE controller[c]]
    /\ activatePc' = [activatePc EXCEPT ![i] = "claim"]
    /\ UNCHANGED << cacheNames, cacheStore, skipWaitingFlag, installPc,
                    fetchFailed, req, uiVars >>

\* clients.claim(): every client in scope becomes controlled by the worker.
ClientsClaim(i) ==
    /\ state[i] = "activating"
    /\ activatePc[i] = "claim"
    /\ controller' = [c \in Clients |-> i]
    /\ activatePc' = [activatePc EXCEPT ![i] = "claimed"]
    /\ UNCHANGED << cacheNames, cacheStore, state, skipWaitingFlag,
                    installPc, fetchFailed, req, uiVars >>

\* Mutant of ActivateSettled: the claim of the clients is not awaited.
ActivateSettled_NoWait(i) ==
    /\ state[i] = "activating"
    /\ state' = [state EXCEPT ![i] = "activated"]
    /\ UNCHANGED << cacheNames, cacheStore, skipWaitingFlag, installPc,
                    fetchFailed, activatePc, controller, req, uiVars >>

\* The promise given to evt.waitUntil settles: the worker is activated.
ActivateSettled(i) ==
    /\ state[i] = "activating"
    /\ activatePc[i] = "claimed"
    /\ state' = [state EXCEPT ![i] = "activated"]
    /\ UNCHANGED << cacheNames, cacheStore, skipWaitingFlag, installPc,
                    fetchFailed, activatePc, controller, req, uiVars >>

\* --------------------------------------------------------- fetch listener
\* Mutant of IsGet: the method test is missing, every request is answered.
IsGet_AnyMethod(method) == method \in Methods

\* if(evt.request.method !== 'GET') return;
IsGet(method) == method = "GET"

\* The host dispatches a fetch event for a request of a controlled client to
\* the client's activated worker.  The handler body runs: it either returns
\* at once (the host then performs the request itself) or calls
\* evt.respondWith(fetch(evt.request).catch(...)).
FetchEvent(c, method, url) ==
    /\ req.pc \in {"idle", "done"}
    /\ controller[c] # 0
    /\ state[controller[c]] = "activated"
    /\ req' = [NoRequest EXCEPT
                 !.client = c, !.inst = controller[c], !.method = method,
                 !.url = url,
                 !.responded = IsGet(method),
                 !.pc = IF IsGet(method) THEN "network" ELSE "passthrough"]
    /\ UNCHANGED << cacheNames, cacheStore, swVars, uiVars >>

\* No respondWith was called: the host performs the request on the network
\* and hands its result, response or failure, to the caller.
DefaultFetch ==
    /\ req.pc = "passthrough"
    /\ \E r \in NetResults :
         req' = [req EXCEPT !.net = r, !.attempts = @ + 1,
                            !.delivered = r, !.pc = "done"]
    /\ UNCHANGED << cacheNames, cacheStore, swVars, uiVars >>

\* evt.respondWith(p): a promise resolved with a Response answers the
\* request with it; one resolved with anything else is a network error.
RespondWith(v) == IF IsResponse(v) THEN v ELSE NetworkError

\* Mutant of FetchSettled: the lookup is chained with then() instead of
\* catch(), so it runs whatever the network attempt gave.
FetchSettled_AlwaysLookup(r) == "match"

\* fetch(evt.request).catch(...): a fulfilled fetch skips the catch handler,
\* a rejected one runs it.
FetchSettled(r) == IF r = NetworkError THEN "match" ELSE "done"

\* Mutant of FetchNetwork: a network response is also written to the cache.
FetchNetwork_WriteBack ==
    /\ req.pc = "network"
    /\ \E r \in NetResults :
         /\ req' = [req EXCEPT !.net = r, !.attempts = @ + 1,
                               !.pc = FetchSettled(r),
                               !.delivered = IF FetchSettled(r) = "done"
                                             THEN RespondWith(r) ELSE @]
         /\ cacheStore' = IF FetchSettled(r) = "done"
                          THEN [cacheStore EXCEPT ![CACHE_NAME][req.url] = r]
                          ELSE cacheStore
    /\ UNCHANGED << cacheNames, swVars, uiVars >>

\* Mutant of FetchNetwork: a rejected attempt is repeated once before the
\* catch handler runs.
FetchNetwork_RetryOnce ==
    /\ req.pc = "network"
    /\ \E r \in NetResults :
         req' = IF r = NetworkError /\ req.attempts = 0
                THEN [req EXCEPT !.net = r, !.attempts = @ + 1]
                ELSE [req EXCEPT !.net = r, !.attempts = @ + 1,
                                 !.pc = FetchSettled(r),
                                 !.delivered = IF FetchSettled(r) = "done"
                                               THEN RespondWith(r) ELSE @]
    /\ UNCHANGED << cacheNames, cacheStore, swVars, uiVars >>

FetchNetwork ==
    /\ req.pc = "network"
    /\ \E r \in NetResults :
         req' = [req EXCEPT !.net = r, !.attempts = @ + 1,
                            !.pc = FetchSettled(r),
                            !.delivered = IF FetchSettled(r) = "done"
                                          THEN RespondWith(r) ELSE @]
    /\ UNCHANGED << cacheNames, cacheStore, swVars, uiVars >>

\* caches.match(request): CacheStorage.match looks in every cache of the
\* origin, in creation order, and resolves with the first matching response,
\* or with undefined when no cache has one.
RECURSIVE MatchIn(_, _, _, _)
MatchIn(names, store, url, k) ==
    IF k > Len(names) THEN Undefined
    ELSE IF store[names[k]][url] # Undefined THEN store[names[k]][url]
    ELSE MatchIn(names, store, url, k + 1)

CachesMatch(names, store, url) == MatchIn(names, store, url, 1)

CatchHandler ==
    /\ req.pc = "match"
    /\ req' = [req EXCEPT
                 !.lookups = @ + 1,
                 !.delivered =
                     RespondWith(CachesMatch(cacheNames, cacheStore, req.url)),
                 !.pc = "done"]
    /\ UNCHANGED << cacheNames, cacheStore, swVars, uiVars >>

Next ==
    \/ \E i \in Inst :
        \/ InstallEvent(i)
        \/ CachesOpen(i)
        \/ AddAll(i)
        \/ InstallSettled(i)
        \/ ActivateEvent(i)
        \/ ClientsClaim(i)
        \/ ActivateSettled(i)
    \/ \E c \in Clients, method \in Methods, url \in URLs :
        FetchEvent(c, method, url)
    \/ DefaultFetch
    \/ FetchNetwork
    \/ CatchHandler

Spec == Init /\ [][Next]_vars

TypeOK ==
    /\ state \in [Inst -> {"parsed", "installing", "installed", "activating",
                           "activated", "redundant"}]
    /\ controller \in [Clients -> Inst \cup {0}]
    /\ req.pc \in {"idle", "network", "passthrough", "match", "done"}

\* ============================================================ dashboard
\* permissions simulation
perms == [Admin |-> {"view_all", "edit_all", "finance", "manage_users"},
          Accountant |-> {"finance", "view_projects"},
          Engineer |-> {"view_projects", "edit_projects"},
          Worker |-> {"view_own_tasks"}]

\* Mutant of can: an Admin is granted every action.
can_AdminAll(user, action) ==
    IF user = NoUser THEN FALSE
    ELSE IF user.role = "Admin" THEN TRUE
    ELSE user.role \in DOMAIN perms /\ action \in perms[user.role]

can(user, action) ==
    IF user = NoUser THEN FALSE
    ELSE user.role \in DOMAIN perms /\ action \in perms[user.role]

\* users.find(x => x.id === id): the first user with that id, if any
Find(us, id) ==
    IF \E k \in 1..Len(us) : us[k].id = id
    THEN us[CHOOSE k \in 1..Len(us) :
                /\ us[k].id = id
                /\ \A j \in 1..(k - 1) : us[j].id # id]
    ELSE NoUser

Added == (Len(users) - Len(sampleUsers))
         + (Len(projects) - Len(sampleProjects))
         + (Len(transactions) - Len(sampleTransactions))

\* sidebar: setActiveTab(tab)
SetActiveTab(t) ==
    /\ activeTab' = t
    /\ UNCHANGED << workerVars, currentUser, users, projects, transactions,
                    showLogin, showAddEmployee, showAddProject,
                    showAddTransaction >>

\* header: the Switch / Login button
OpenLogin ==
    /\ showLogin' = TRUE
    /\ UNCHANGED << workerVars, currentUser, users, projects, transactions,
                    activeTab, showAddEmployee, showAddProject,
                    showAddTransaction >>

\* Switch User modal: Close
CloseLogin ==
    /\ showLogin
    /\ showLogin' = FALSE
    /\ UNCHANGED << workerVars, currentUser, users, projects, transactions,
                    activeTab, showAddEmployee, showAddProject,
                    showAddTransaction >>

\* Switch User modal: the button of the k-th user
LoginAs(k) ==
    /\ showLogin
    /\ currentUser' = users[k]
    /\ showLogin' = FALSE
    /\ UNCHANGED << workerVars, users, projects, transactions, activeTab,
                    showAddEmployee, showAddProject, showAddTransaction >>

\* sidebar role select: the option of the k-th user carries that user's id
SelectUser(k) ==
    /\ currentUser' = Find(users, users[k].id)
    /\ UNCHANGED << workerVars, users, projects, transactions, activeTab,
                    showLogin, showAddEmployee, showAddProject,
                    showAddTransaction >>

\* the Add Employee buttons (sidebar, employees tab) are rendered only
\* when can('manage_users')
ClickAddEmployee ==
    /\ can(currentUser, "manage_users")
    /\ showAddEmployee' = TRUE
    /\ UNCHANGED << workerVars, currentUser, users, projects, transactions,
                    activeTab, showLogin, showAddProject,
                    showAddTransaction >>

\* the New Project buttons (dashboard and projects tab) are rendered only
\* when can('edit_projects')
ClickNewProject ==
    /\ activeTab \in {"dashboard", "projects"}
    /\ can(currentUser, "edit_projects")
    /\ showAddProject' = TRUE
    /\ UNCHANGED << workerVars, currentUser, users, projects, transactions,
                    activeTab, showLogin, showAddEmployee,
                    showAddTransaction >>

\* the Add Transaction buttons (dashboard and finance tab) are rendered
\* only when can('finance')
ClickAddTransaction ==
    /\ activeTab \in {"dashboard", "finance"}
    /\ can(currentUser, "finance")
    /\ showAddTransaction' = TRUE
    /\ UNCHANGED << workerVars, currentUser, users, projects, transactions,
                    activeTab, showLogin, showAddEmployee, showAddProject >>

\* AddEmployeeForm submit: emp.id = Date.now(); prepend; close the modal
addEmployee(role, t) ==
    /\ showAddEmployee
    /\ Added < MaxAdds
    /\ users' = << User(t, role) >> \o users
    /\ showAddEmployee' = FALSE
    /\ UNCHANGED << workerVars, currentUser, projects, transactions,
                    activeTab, showLogin, showAddProject,
                    showAddTransaction >>

\* AddProjectForm submit
addProject(t) ==
    /\ showAddProject
    /\ Added < MaxAdds
    /\ projects' = << t >> \o projects
    /\ showAddProject' = FALSE
    /\ UNCHANGED << workerVars, currentUser, users, transactions, activeTab,
                    showLogin, showAddEmployee, showAddTransaction >>

\* AddTransactionForm submit
addTransaction(t) ==
    /\ showAddTransaction
    /\ Added < MaxAdds
    /\ transactions' = << t >> \o transactions
    /\ showAddTransaction' = FALSE
    /\ UNCHANGED << workerVars, currentUser, users, projects, activeTab,
                    showLogin, showAddEmployee, showAddProject >>

\* Close / Cancel of the three add modals
CloseAddEmployee ==
    /\ showAddEmployee
    /\ showAddEmployee' = FALSE
    /\ UNCHANGED << workerVars, currentUser, users, projects, transactions,
                    activeTab, showLogin, showAddProject,
                    showAddTransaction >>

CloseAddProject ==
    /\ showAddProject
    /\ showAddProject' = FALSE
    /\ UNCHANGED << workerVars, currentUser, users, projects, transactions,
                    activeTab, showLogin, showAddEmployee,
                    showAddTransaction >>

CloseAddTransaction ==
    /\ showAddTransaction
    /\ showAddTransaction' = FALSE
    /\ UNCHANGED << workerVars, currentUser, users, projects, transactions,
                    activeTab, showLogin, showAddEmployee, showAddProject >>

\* The dashboard on an origin whose worker is not yet installed.
InitUI == Init /\ cacheNames = << >>

NextUI ==
    \/ \E t \in Tabs : SetActiveTab(t)
    \/ OpenLogin
    \/ CloseLogin
    \/ \E k \in 1..Len(users) : LoginAs(k)
    \/ \E k \in 1..Len(users) : SelectUser(k)
    \/ ClickAddEmployee
    \/ ClickNewProject
    \/ ClickAddTransaction
    \/ \E role \in Roles, t \in Timestamps : addEmployee(role, t)
    \/ \E t \in Timestamps : addProject(t)
    \/ \E t \in Timestamps : addTransaction(t)
    \/ CloseAddEmployee
    \/ CloseAddProject
    \/ CloseAddTransaction

SpecUI == InitUI /\ [][NextUI]_vars

\* ----------------------------------------------------------- shorthands
Namespace == cacheStore[CACHE_NAME]
Done == req.pc = "done"
NetworkFailed == req.net = NetworkError
\* the step that answers a request from the catch handler's lookup
FallbackStep == req.pc = "match" /\ req'.pc = "done"
\* a step of the handling of a fetch event
FetchStep == req' # req
\* a step of the install handling of instance i
InstallStep(i) == installPc'[i] # installPc[i]
Populated == Keys(Namespace) = AssetSet

\* C1: a request whose method is not GET is never answered by the handler:
\* no respondWith, no cache lookup, no change of the cache, and the caller
\* gets exactly what the network attempt gave, response or failure.
C1_NonGetBypassesLayer ==
    [][ (req'.pc # "idle" /\ req'.method # "GET") =>
            /\ ~req'.responded
            /\ req'.lookups = 0
            /\ req'.pc # "match"
            /\ (req'.pc = "done" =>
                  req'.attempts = 1 /\ req'.delivered = req'.net)
            /\ (FetchStep =>
                  cacheStore' = cacheStore /\ cacheNames' = cacheNames) ]_vars

\* C1 witness: a POST whose network attempt failed reached the caller as a
\* failure although a cache holds a response for the same URL.
C1_Witness ==
    /\ Done /\ req.method = "POST"
    /\ req.delivered = NetworkError
    /\ Namespace[req.url] # Undefined

\* C2: when the network attempt of a GET fails and the namespace
\* topview-shell-v1 holds an entry for the request, the caller receives
\* exactly that entry.
C2_FallbackIsNamespaceEntry ==
    [][ (FallbackStep /\ Namespace[req.url] # Undefined) =>
            req'.delivered = Namespace[req.url] ]_vars

\* C3: when the network attempt of a GET succeeds, with any status, the
\* caller receives the network response and no cache lookup happens.
C3_NetworkResponseAsIs ==
    (Done /\ req.method = "GET" /\ ~NetworkFailed) =>
        /\ req.delivered = req.net
        /\ req.lookups = 0

\* C3 witness: a GET answered by a not-ok network response while the
\* namespace holds a different response for the same URL.
C3_Witness ==
    /\ Done /\ req.method = "GET"
    /\ req.net = NotFound /\ req.delivered = NotFound
    /\ Namespace[req.url] # Undefined

\* C4: when the network attempt of a GET fails and the namespace
\* topview-shell-v1 holds no entry for the request, the caller receives a
\* failure, never a response.
C4_MissPropagatesFailure ==
    [][ (FallbackStep /\ Namespace[req.url] = Undefined) =>
            req'.delivered = NetworkError ]_vars

\* C5: once the install of an instance has succeeded, the namespace
\* topview-shell-v1 exists and its keys are exactly the shell assets.
C5_InstallPopulatesExactlyShell ==
    \A i \in Inst :
        installPc[i] = "resolved" =>
            /\ \E k \in 1..Len(cacheNames) : cacheNames[k] = CACHE_NAME
            /\ Keys(Namespace) = AssetSet

\* C5 witness: an instance whose install succeeded on a namespace it created.
C5_Witness ==
    \E i \in Inst :
        /\ state[i] = "installed"
        /\ installPc[i] = "resolved"
        /\ \A j \in Inst : j # i => installPc[j] \in {"idle", "rejected"}

\* C6: an instance one of whose install fetches failed has a rejected
\* install, never becomes installed or active, controls no client and
\* handles no fetch event, although its skip waiting flag is set.
C6_FailedInstallNeverActive ==
    \A i \in Inst :
        fetchFailed[i] =>
            /\ installPc[i] = "rejected"
            /\ state[i] \in {"installing", "redundant"}
            /\ activatePc[i] = "idle"
            /\ \A c \in Clients : controller[c] # i
            /\ req.inst # i

\* C6 witness: the host has discarded an instance whose install fetch
\* failed after it had requested skipWaiting.
C6_Witness ==
    \E i \in Inst :
        /\ fetchFailed[i]
        /\ skipWaitingFlag[i]
        /\ state[i] = "redundant"

\* C7: a GET for a shell asset handled by an active instance always ends in
\* a response: the network one when the attempt succeeded, a cached one when
\* it failed.
C7_ShellAlwaysAvailable ==
    (Done /\ req.method = "GET" /\ req.url \in AssetSet) =>
        /\ IsResponse(req.delivered)
        /\ (~NetworkFailed => req.delivered = req.net)
        /\ (NetworkFailed => req.lookups = 1 /\ Ok(req.delivered))

\* C7 witness: a GET for a shell asset was answered from a cache after the
\* network attempt had failed.
C7_Witness ==
    /\ Done /\ req.method = "GET" /\ req.url \in AssetSet
    /\ NetworkFailed
    /\ IsResponse(req.delivered)

\* C8: a step of an install that runs against an already populated namespace
\* leaves the set of cache names and the key set of the namespace unchanged.
C8_InstallIdempotentKeys ==
    [][ \A i \in Inst :
          (InstallStep(i) /\ Populated) =>
              /\ cacheNames' = cacheNames
              /\ Keys(cacheStore'[CACHE_NAME]) = Keys(Namespace) ]_vars

\* C8 witness: two installs have succeeded against the same namespace.
C8_Witness ==
    \E i, j \in Inst :
        /\ i # j
        /\ installPc[i] = "resolved"
        /\ installPc[j] = "resolved"
        /\ Populated

\* C9: no step of the handling of a fetch event changes the cache storage.
C9_FetchNeverWrites ==
    [][ FetchStep =>
          cacheStore' = cacheStore /\ cacheNames' = cacheNames ]_vars

\* C9 witness: a GET for a URL that no cache holds was answered by the
\* network and the URL is still not cached.
C9_Witness ==
    /\ Done /\ req.method = "GET"
    /\ Ok(req.delivered)
    /\ \A n \in CacheNames : cacheStore[n][req.url] = Undefined

\* C10: a response served by the catch handler is the entry of the namespace
\* topview-shell-v1 for the request, never an entry of another namespace.
C10_FallbackOnlyFromNamespace ==
    [][ (FallbackStep /\ IsResponse(req'.delivered)) =>
            req'.delivered = Namespace[req.url] ]_vars

\* C11: every instance moves parsed -> installing -> installed -> activating
\* -> activated (or to redundant); it is installed only once its cache
\* population has resolved and the namespace is populated, activated only
\* once its claim of the clients has finished, and a fetch event is
\* dispatched only to an activated instance.
LifecycleSteps ==
    { << "parsed", "installing" >>, << "installing", "installed" >>,
      << "installing", "redundant" >>, << "installed", "activating" >>,
      << "activating", "activated" >>, << "activated", "redundant" >> }

C11_LifecycleOrdered ==
    [][ /\ \A i \in Inst :
             /\ state'[i] # state[i] =>
                    << state[i], state'[i] >> \in LifecycleSteps
             /\ state'[i] \in {"installed", "activating", "activated"} =>
                    /\ installPc'[i] = "resolved"
                    /\ Keys(cacheStore'[CACHE_NAME]) = AssetSet
             /\ state'[i] = "activated" =>
                    /\ activatePc'[i] = "claimed"
                    /\ \A c \in Clients : controller'[c] = i
        /\ (req'.inst # req.inst \/ (req.pc = "done" /\ req'.pc # "done")) =>
               state[req'.inst] = "activated" ]_vars

\* C11 witness: an instance went through the whole lifecycle and then
\* answered a request.
C11_Witness ==
    \E i \in Inst :
        /\ state[i] = "activated"
        /\ installPc[i] = "resolved"
        /\ activatePc[i] = "claimed"
        /\ Done /\ req.inst = i

\* C12: an installed instance can be activated at once, also while an older
\* instance still controls clients; an activated instance controls every
\* client, and every fetch event dispatched while it is activated goes to it.
Dispatch == req'.pc \in {"network", "passthrough"} /\ req.pc \in {"idle", "done"}

C12_ActivatesWithoutWaiting ==
    [][ \A i \in Inst :
          /\ (state[i] = "installed" /\ \A j \in Inst : state[j] # "activating")
                => ENABLED ActivateEvent(i)
          /\ state[i] = "activated" =>
                /\ \A c \in Clients : controller[c] = i
                /\ Dispatch => req'.inst = i ]_vars

\* C12 witness: a newer instance replaced an older active one, controls the
\* clients and has answered a request.
C12_Witness ==
    \E i, j \in Inst :
        /\ i # j
        /\ state[j] = "redundant" /\ activatePc[j] = "claimed"
        /\ state[i] = "activated"
        /\ \A c \in Clients : controller[c] = i
        /\ Done /\ req.inst = i

\* C13: when the installs of two instances have both succeeded, however
\* their open and population steps interleaved, there is one namespace
\* topview-shell-v1, its keys are exactly the shell assets and its entries
\* are those one single addAll stored (no mix of two populations).
C13_ConcurrentInstallsSafe ==
    \A i, j \in Inst :
        (i # j /\ installPc[i] = "resolved" /\ installPc[j] = "resolved") =>
            /\ Cardinality({ k \in 1..Len(cacheNames) :
                               cacheNames[k] = CACHE_NAME }) = 1
            /\ Keys(Namespace) = AssetSet
            /\ \E results \in AddAllFetches :
                 \A u \in AssetSet : Namespace[u] = results[u]

\* C13 witness: two installs overlapped (both populations resolved while
\* both instances were still installing).
C13_Witness ==
    \E i, j \in Inst :
        /\ i # j
        /\ state[i] = "installing" /\ installPc[i] = "resolved"
        /\ state[j] = "installing" /\ installPc[j] = "resolved"

\* C14: the handling of a GET makes one network attempt and at most one
\* cache lookup, the lookup only after that attempt was rejected; and an
\* instance whose install was rejected never runs its install again.
C14_NoRetry ==
    [][ /\ (req'.pc # "idle" /\ req'.method = "GET") =>
              /\ req'.attempts <= 1
              /\ req'.lookups <= 1
              /\ req'.pc \in {"match", "done"} => req'.attempts = 1
              /\ req'.pc = "match" =>
                    req'.net = NetworkError /\ req'.lookups = 0
              /\ req'.lookups = 1 =>
                    req'.net = NetworkError /\ req'.pc = "done"
        /\ \A i \in Inst :
              installPc[i] = "rejected" =>
                  /\ installPc'[i] = "rejected"
                  /\ state'[i] \in {"installing", "redundant"}
                  /\ state[i] = "redundant" => state'[i] = "redundant" ]_vars

\* C14 witness: a GET ended after one rejected attempt and one lookup, and
\* an instance whose install was rejected has been discarded.
C14_Witness ==
    /\ Done /\ req.method = "GET"
    /\ NetworkFailed /\ req.attempts = 1 /\ req.lookups = 1
    /\ \E i \in Inst : installPc[i] = "rejected" /\ state[i] = "redundant"

\* C15: in every reachable state the namespace topview-shell-v1 holds either
\* none of the shell assets or all of them.
C15_PopulationAllOrNothing ==
    Keys(Namespace) \cap AssetSet \in { {}, AssetSet }

\* C15 witness: the only install so far was rejected after it had created
\* the namespace, and the namespace is empty.
C15_Witness ==
    /\ \E k \in 1..Len(cacheNames) : cacheNames[k] = CACHE_NAME
    /\ Keys(Namespace) = {}
    /\ \E i \in Inst :
         /\ fetchFailed[i] /\ installPc[i] = "rejected"
         /\ \A j \in Inst : j # i => installPc[j] = "idle"

\* C16: an add modal goes from closed to open only in a state where the
\* current user's role grants the matching permission: Add Employee only for
\* an Admin (manage_users), Add Project only for an Engineer
\* (edit_projects), Add Transaction only for an Admin or an Accountant
\* (finance); and no permission is granted when there is no current user.
C16_AddModalsNeedPermission ==
    [][ /\ (~showAddEmployee /\ showAddEmployee') =>
              /\ can(currentUser, "manage_users")
              /\ currentUser.role = "Admin"
        /\ (~showAddProject /\ showAddProject') =>
              /\ can(currentUser, "edit_projects")
              /\ currentUser.role = "Engineer"
        /\ (~showAddTransaction /\ showAddTransaction') =>
              /\ can(currentUser, "finance")
              /\ currentUser.role \in {"Admin", "Accountant"}
        /\ \A a \in UNION { perms[r] : r \in DOMAIN perms } :
              ~can(NoUser, a) ]_vars

\* C16 witness: after an add operation and a switch of the user, an
\* Engineer has opened the Add Project modal.
C16_Witness ==
    /\ Len(users) > Len(sampleUsers)
    /\ currentUser.role = "Engineer"
    /\ showAddProject
    /\ ~showAddEmployee
====
